---- MODULE Spec2Model ----
(***************************************************************************)
(* DukValue: a variant over Duktape values.  Script objects are persisted  *)
(* in the "ref array" kept in the heap stash; slot 0 of that array heads a *)
(* free list.  The Duktape engine is modelled by one value stack and the   *)
(* heap stash of one context; every DukValue member function is one action *)
(* computed from the sequence of duk_* calls the code makes.               *)
(***************************************************************************)
EXTENDS Integers, Sequences, FiniteSets, TLC

\* ----------------------------------------------------------------- bounds
MaxStack == 2      \* value-stack depth the host leaves between operations
NumVals == 2       \* DukValue instances (addresses) that may exist at once
ChainVals == 3     \* the same, for the programs that copy one captured object

\* ------------------------------------------------ duktape.h type numbers
DUK_TYPE_NONE == 0
DUK_TYPE_UNDEFINED == 1
DUK_TYPE_NULL == 2
DUK_TYPE_BOOLEAN == 3
DUK_TYPE_NUMBER == 4
DUK_TYPE_STRING == 5
DUK_TYPE_OBJECT == 6
DUK_TYPE_BUFFER == 7
DUK_TYPE_POINTER == 8
DUK_TYPE_LIGHTFUNC == 9

\* NULL for duk_context*, int* and void*
NULL == 0
\* the one duk_context the host runs
Ctx == 1

\* ------------------------------------------------------- engine values
\* A tagged engine value: n carries the boolean (0/1), the number, the
\* pointer address or the heap object identity; s the bytes of a string.
EV(t, n, s) == [type |-> t, n |-> n, s |-> s]
VUndefined == EV(DUK_TYPE_UNDEFINED, 0, <<>>)
VNull == EV(DUK_TYPE_NULL, 0, <<>>)
VBool(b) == EV(DUK_TYPE_BOOLEAN, b, <<>>)
VNum(x) == EV(DUK_TYPE_NUMBER, x, <<>>)
VStr(bytes) == EV(DUK_TYPE_STRING, 0, bytes)
VObj(o) == EV(DUK_TYPE_OBJECT, o, <<>>)
VPtr(p) == EV(DUK_TYPE_POINTER, p, <<>>)
VBuf(b) == EV(DUK_TYPE_BUFFER, b, <<>>)

\* heap objects of the engine itself
StashObj == 90     \* the heap stash
RefArrObj == 91    \* the array stored under "dukglue_dukvalue_refs"

\* The script values host programs put on the value stack.  Each program
\* uses one of these sets; together they hold a value of every type
\* duk_get_type can report for a valid index (the string has an embedded
\* zero byte, the buffer stands for the types DukValue::Type leaves out),
\* and two distinct script objects.
ObjectValues == { VObj(1), VObj(2) }
HostValueSets ==
  { ObjectValues,
    { VUndefined, VNull, VBool(1), VNum(1) },
    { VNum(7), VStr(<<97, 0, 98>>), VObj(1) },
    { VPtr(5), VBuf(3), VObj(1) } }

\* An engine: the value stack (bottom first), the elements of the ref array
\* (element k is refs[k+1]) and whether the stash has the array property.
Engine(st, rf, has) == [stack |-> st, refs |-> rf, stashed |-> has]

duk_get_top(e) == Len(e.stack)
duk_normalize_index(e, idx) == IF idx < 0 THEN duk_get_top(e) + idx ELSE idx
duk_is_valid_index(e, idx) ==
  LET k == duk_normalize_index(e, idx) IN k >= 0 /\ k < duk_get_top(e)
StackAt(e, idx) == e.stack[duk_normalize_index(e, idx) + 1]

duk_get_type(e, idx) ==
  IF duk_is_valid_index(e, idx) THEN StackAt(e, idx).type ELSE DUK_TYPE_NONE
duk_check_type_mask(e, idx, mask) == duk_get_type(e, idx) \in mask

duk_push(e, v) == [e EXCEPT !.stack = Append(@, v)]
duk_pop(e) == [e EXCEPT !.stack = SubSeq(@, 1, Len(@) - 1)]
duk_pop_2(e) == duk_pop(duk_pop(e))
duk_remove(e, idx) ==
  LET k == duk_normalize_index(e, idx) + 1 IN
  [e EXCEPT !.stack = SubSeq(@, 1, k - 1) \o SubSeq(@, k + 1, Len(@))]
duk_dup(e, idx) == duk_push(e, StackAt(e, idx))

\* array element read: a missing element reads as undefined
ArrayGet(rf, k) == IF k >= 0 /\ k < Len(rf) THEN rf[k + 1] ELSE VUndefined
\* array element write: writing at or past length grows the array
ArrayPut(rf, k, v) ==
  LET n == IF k + 1 > Len(rf) THEN k + 1 ELSE Len(rf) IN
  [j \in 1..n |-> IF j = k + 1 THEN v ELSE ArrayGet(rf, j - 1)]

IsRefArr(v) == v = VObj(RefArrObj)
duk_get_prop_index(e, objIdx, k) ==
  duk_push(e, IF IsRefArr(StackAt(e, objIdx)) THEN ArrayGet(e.refs, k) ELSE VUndefined)
duk_put_prop_index(e, objIdx, k) ==
  LET v == StackAt(e, -1) IN
  IF IsRefArr(StackAt(e, objIdx))
    THEN duk_pop([e EXCEPT !.refs = ArrayPut(@, k, v)])
    ELSE duk_pop(e)
duk_get_uint(e, idx) ==
  LET v == StackAt(e, idx) IN IF v.type = DUK_TYPE_NUMBER /\ v.n >= 0 THEN v.n ELSE 0
duk_get_length(e, idx) == IF IsRefArr(StackAt(e, idx)) THEN Len(e.refs) ELSE 0
duk_equals(e, i1, i2) == StackAt(e, i1) = StackAt(e, i2)

\* ------------------------------------------------------ ReferenceTable
\* variant: the new array is stored without ref_array[0]
push_ref_array_create_empty(e) == [e EXCEPT !.refs = <<>>, !.stashed = TRUE]

\* push_ref_array, the part run when the heap stash (on top of the stack)
\* has no ref array yet: a new array with ref_array[0] = 0 is stored in it
push_ref_array_create(e) ==
  LET a == duk_push([e EXCEPT !.refs = <<>>], VObj(RefArrObj))
      b == duk_push(a, VNum(0))
      c == duk_put_prop_index(b, -2, 0)
  IN  duk_pop([c EXCEPT !.stashed = TRUE])

\* push_ref_array, from the duk_has_prop_string test on
push_ref_array_get(e) ==
  duk_remove(duk_push(IF ~e.stashed THEN push_ref_array_create(e) ELSE e,
                      VObj(RefArrObj)), -2)

\* leaves the ref array on top of the stack
push_ref_array(e) == push_ref_array_get(duk_push(e, VObj(StashObj)))

\* variant: the ref array is left on the stack
stash_ref_store_no_pop(e, idx, next_free_idx) ==
  [e |-> duk_put_prop_index(duk_dup(e, idx), -2, next_free_idx),
   ret |-> next_free_idx]

\* stash_ref, the end: duplicate the value at idx, store it, pop the array
stash_ref_store(e, idx, next_free_idx) ==
  [e |-> duk_pop(duk_put_prop_index(duk_dup(e, idx), -2, next_free_idx)),
   ret |-> next_free_idx]

\* variant: the free list is ignored, every reference is appended
stash_ref_next_append(e, idx, head) ==
  stash_ref_store(e, idx, duk_get_length(e, -1))

\* variant: the slot at the head is reused but stays the head
stash_ref_next_keeps_head(e, idx, head) ==
  IF head = 0
    THEN stash_ref_store(e, idx, duk_get_length(e, -1))
    ELSE stash_ref_store(e, idx, head)

\* stash_ref, the choice of the slot for the free-list head read
stash_ref_next(e, idx, head) ==
  IF head = 0
    THEN stash_ref_store(e, idx, duk_get_length(e, -1))
    ELSE stash_ref_store(
           duk_put_prop_index(duk_get_prop_index(e, -1, head), -2, 0), idx, head)

\* stash_ref, with ref_array[0] on top of the stack
stash_ref_head(e, idx) == stash_ref_next(duk_pop(e), idx, duk_get_uint(e, -1))

\* variant: a relative idx is used as given
stash_ref_idx_unadjusted(idx) == idx

\* a relative idx is adjusted for the array pushed above it
stash_ref_idx(idx) == IF idx < 0 THEN idx - 1 ELSE idx

\* put a new reference into the ref array and return its index in the array
stash_ref(e, idx) ==
  stash_ref_head(duk_get_prop_index(push_ref_array(e), -1, 0), stash_ref_idx(idx))

\* variant: the last slot of the array is dropped instead of linked
free_ref_shrink(e, ref_array_idx) ==
  IF ref_array_idx = Len(e.refs) - 1
    THEN [e EXCEPT !.refs = SubSeq(@, 1, Len(@) - 1)]
    ELSE duk_pop(duk_put_prop_index(duk_push(duk_put_prop_index(
           duk_get_prop_index(push_ref_array(e), -1, 0), -2, ref_array_idx),
           VNum(ref_array_idx)), -2, 0))

\* variant: the freed slot becomes the head but keeps its content
free_ref_no_link(e, ref_array_idx) ==
  duk_pop(duk_put_prop_index(duk_push(push_ref_array(e), VNum(ref_array_idx)), -2, 0))

\* remove ref_array_idx from the ref array and add its spot to the free list
free_ref(e, ref_array_idx) ==
  LET e1 == push_ref_array(e)
      e2 == duk_get_prop_index(e1, -1, 0)
      e3 == duk_put_prop_index(e2, -2, ref_array_idx)
      e4 == duk_push(e3, VNum(ref_array_idx))
      e5 == duk_put_prop_index(e4, -2, 0)
  IN  duk_pop(e5)

\* ------------------------------------------------------------ DukValue
\* mPOD is a union: field names the member written last, n its content.
Pod(f, n) == [field |-> f, n |-> n]
PodUninit == Pod("uninit", 0)

DukValueRec(ctx, t, pod, str, rc) ==
  [live |-> TRUE, mContext |-> ctx, mType |-> t, mPOD |-> pod,
   mString |-> str, mRefCount |-> rc]
\* storage that holds no DukValue
Dead ==
  [live |-> FALSE, mContext |-> NULL, mType |-> DUK_TYPE_UNDEFINED,
   mPOD |-> PodUninit, mString |-> <<>>, mRefCount |-> NULL]
\* DukValue(): an undefined-type DukValue
DefaultValue == DukValueRec(NULL, DUK_TYPE_UNDEFINED, PodUninit, <<>>, NULL)

\* The program state an operation works on: the DukValue instances, the
\* engine and the heap cells of the reference counters (Unallocated when no
\* int lives there).
Unallocated == -1
World(vs, e, rcs) == [vals |-> vs, eng |-> e, counts |-> rcs]
FreeCells(w) == {c \in DOMAIN w.counts : w.counts[c] = Unallocated}

\* variant: the slot is freed whatever the counter says
release_ref_count_ignoring_count(w, i) ==
  IF w.vals[i].mType = DUK_TYPE_OBJECT
    THEN [w EXCEPT !.eng = free_ref(@, w.vals[i].mPOD.n),
                   !.vals[i].mRefCount = NULL,
                   !.vals[i].mType = DUK_TYPE_UNDEFINED]
    ELSE w

\* release_ref_count() of instance i
release_ref_count(w, i) ==
  IF w.vals[i].mType = DUK_TYPE_OBJECT
    THEN IF w.vals[i].mRefCount # NULL
           THEN IF w.counts[w.vals[i].mRefCount] > 1
                  THEN [w EXCEPT !.counts[w.vals[i].mRefCount] = @ - 1,
                                 !.vals[i].mRefCount = NULL,
                                 !.vals[i].mType = DUK_TYPE_UNDEFINED]
                  ELSE [w EXCEPT !.eng = free_ref(@, w.vals[i].mPOD.n),
                                 !.counts[w.vals[i].mRefCount] = Unallocated,
                                 !.vals[i].mRefCount = NULL,
                                 !.vals[i].mType = DUK_TYPE_UNDEFINED]
           ELSE [w EXCEPT !.eng = free_ref(@, w.vals[i].mPOD.n),
                          !.vals[i].mType = DUK_TYPE_UNDEFINED]
    ELSE w

\* variant: a counter that exists is shared without being incremented
ref_count_increment_missing(w, i, j, cell) ==
  IF w.vals[i].mType = DUK_TYPE_OBJECT
    THEN IF w.vals[j].mRefCount = NULL
           THEN [w EXCEPT !.counts[cell] = 2,
                          !.vals[j].mRefCount = cell,
                          !.vals[i].mRefCount = cell]
           ELSE [w EXCEPT !.vals[i].mRefCount = w.vals[j].mRefCount]
    ELSE w

\* variant: a new counter starts at 1
ref_count_increment_from_one(w, i, j, cell) ==
  IF w.vals[i].mType = DUK_TYPE_OBJECT
    THEN IF w.vals[j].mRefCount = NULL
           THEN [w EXCEPT !.counts[cell] = 1,
                          !.vals[j].mRefCount = cell,
                          !.vals[i].mRefCount = cell]
           ELSE [w EXCEPT !.vals[i].mRefCount = w.vals[j].mRefCount,
                          !.counts[w.vals[j].mRefCount] = @ + 1]
    ELSE w

\* operator=, the ref counting increment once the fields are copied; cell:
\* the heap cell "new int" returns should it be called
ref_count_increment(w, i, j, cell) ==
  IF w.vals[i].mType = DUK_TYPE_OBJECT
    THEN IF w.vals[j].mRefCount = NULL
           THEN [w EXCEPT !.counts[cell] = 2,
                          !.vals[j].mRefCount = cell,
                          !.vals[i].mRefCount = cell]
           ELSE [w EXCEPT !.vals[i].mRefCount = w.vals[j].mRefCount,
                          !.counts[w.vals[j].mRefCount] = @ + 1]
    ELSE w

\* operator=, "copy things" from rhs (instance j) into instance i
copy_things(w, i, j) ==
  [w EXCEPT !.vals[i].mContext = w.vals[j].mContext,
            !.vals[i].mType = w.vals[j].mType,
            !.vals[i].mPOD = w.vals[j].mPOD,
            !.vals[i].mString =
               IF w.vals[j].mType = DUK_TYPE_STRING THEN w.vals[j].mString ELSE @]

\* operator=(rhs) on instance i with rhs instance j (i = j: self-assignment)
CopyAssignOp(w, i, j, cell) ==
  ref_count_increment(copy_things(release_ref_count(w, i), i, j), i, j, cell)

\* variant: the source keeps its type and its counter pointer
MoveConstructOp_keeps_source(w, i, j) ==
  [w EXCEPT !.vals[i] = DukValueRec(w.vals[j].mContext, w.vals[j].mType,
                           w.vals[j].mPOD,
                           IF w.vals[j].mType = DUK_TYPE_STRING
                             THEN w.vals[j].mString ELSE <<>>,
                           w.vals[j].mRefCount)]

\* DukValue(DukValue&& move): construct instance i from instance j (the
\* moved-from std::string is left empty)
MoveConstructOp(w, i, j) ==
  [w EXCEPT !.vals[i] = DukValueRec(w.vals[j].mContext, w.vals[j].mType,
                           w.vals[j].mPOD,
                           IF w.vals[j].mType = DUK_TYPE_STRING
                             THEN w.vals[j].mString ELSE <<>>,
                           w.vals[j].mRefCount),
            !.vals[j].mString = IF w.vals[j].mType = DUK_TYPE_STRING THEN <<>> ELSE @,
            !.vals[j].mType = DUK_TYPE_UNDEFINED,
            !.vals[j].mRefCount = NULL]

\* std::string::assign(data, len): the first len bytes, zero bytes included
StringAssign(data, len) == SubSeq(data, 1, len)

\* copy_from_stack, the switch on value.mType: the payload read for type t
\* from the stack value x, ref the slot stash_ref returned (no default
\* case: any other type leaves mPOD and mString as DukValue() made them)
capture_value(t, x, ref) ==
  DukValueRec(Ctx, t,
    CASE t = DUK_TYPE_NULL -> Pod("pointer", NULL)
      [] t = DUK_TYPE_BOOLEAN -> Pod("boolean", IF x.n # 0 THEN 1 ELSE 0)
      [] t = DUK_TYPE_NUMBER -> Pod("number", x.n)
      [] t = DUK_TYPE_OBJECT -> Pod("ref_array_idx", ref)
      [] t = DUK_TYPE_POINTER -> Pod("pointer", x.n)
      [] OTHER -> PodUninit,
    IF t = DUK_TYPE_STRING THEN StringAssign(x.s, Len(x.s)) ELSE <<>>,
    NULL)

capture_result(e, idx, st) ==
  [e |-> st.e, val |-> capture_value(duk_get_type(e, idx), StackAt(e, idx), st.ret)]

\* the DukValue copy_from_stack builds for the value at idx, and the engine
\* it leaves
copy_from_stack(e, idx) ==
  capture_result(e, idx,
    IF duk_get_type(e, idx) = DUK_TYPE_OBJECT
      THEN stash_ref(e, idx) ELSE [e |-> e, ret |-> 0])

\* take_from_stack: copy_from_stack, then duk_remove(ctx, idx)
take_remove(r, idx) == [e |-> duk_remove(r.e, idx), val |-> r.val]
take_from_stack(e, idx) == take_remove(copy_from_stack(e, idx), idx)

\* push(): the engine after pushing the value v holds (no default case: a
\* type outside the seven pushes nothing)
push(e, v) ==
  CASE v.mType = DUK_TYPE_UNDEFINED -> duk_push(e, VUndefined)
    [] v.mType = DUK_TYPE_NULL -> duk_push(e, VNull)
    [] v.mType = DUK_TYPE_BOOLEAN -> duk_push(e, VBool(v.mPOD.n))
    [] v.mType = DUK_TYPE_NUMBER -> duk_push(e, VNum(v.mPOD.n))
    [] v.mType = DUK_TYPE_STRING -> duk_push(e, VStr(v.mString))
    [] v.mType = DUK_TYPE_OBJECT ->
         duk_remove(duk_get_prop_index(push_ref_array(e), -1, v.mPOD.n), -2)
    [] v.mType = DUK_TYPE_POINTER -> duk_push(e, VPtr(v.mPOD.n))
    [] OTHER -> e

\* variant: the value on top is compared with itself
equals_object_same_index(e) == [e |-> duk_pop_2(e), ret |-> duk_equals(e, -1, -1)]

\* operator==, case OBJECT with both operands pushed
equals_object(e) == [e |-> duk_pop_2(e), ret |-> duk_equals(e, -1, -2)]

\* operator==: the result and the engine it leaves
equals(e, a, b) ==
  IF a.mType # b.mType \/ a.mContext # b.mContext
    THEN [e |-> e, ret |-> FALSE]
    ELSE CASE a.mType \in {DUK_TYPE_UNDEFINED, DUK_TYPE_NULL} -> [e |-> e, ret |-> TRUE]
           [] a.mType \in {DUK_TYPE_BOOLEAN, DUK_TYPE_NUMBER, DUK_TYPE_POINTER} ->
                [e |-> e, ret |-> a.mPOD.n = b.mPOD.n]
           [] a.mType = DUK_TYPE_STRING -> [e |-> e, ret |-> a.mString = b.mString]
           [] a.mType = DUK_TYPE_OBJECT -> equals_object(push(push(e, a), b))
           [] OTHER -> [e |-> e, ret |-> FALSE]

\* the typed getters: ok when the assert in front of the return is passed,
\* data what the return statement yields (the member of mPOD it reads, or
\* mString, whatever the type). The numbers of the host programs are
\* integers of 0..255, which the casts to float and uint32_t keep.
as_double(v) == [ok |-> v.mType = DUK_TYPE_NUMBER, data |-> v.mPOD.n]
as_float(v) == [ok |-> v.mType = DUK_TYPE_NUMBER, data |-> v.mPOD.n]
as_int(v) == [ok |-> v.mType = DUK_TYPE_NUMBER, data |-> v.mPOD.n % 256]
as_uint(v) == [ok |-> v.mType = DUK_TYPE_NUMBER, data |-> v.mPOD.n % 256]
as_pointer(v) ==
  [ok |-> v.mType \in {DUK_TYPE_POINTER, DUK_TYPE_NULL}, data |-> v.mPOD.n]
as_string(v) == [ok |-> v.mType = DUK_TYPE_STRING, data |-> v.mString]
\* mString.data(): the bytes a reader of the C string sees, up to the first 0
RECURSIVE CString(_)
CString(bytes) ==
  IF bytes = <<>> \/ bytes[1] = 0 THEN <<>> ELSE <<bytes[1]>> \o CString(Tail(bytes))
as_c_string(v) == [ok |-> v.mType = DUK_TYPE_STRING, data |-> CString(v.mString)]

Getters ==
  {"as_double", "as_float", "as_int", "as_uint", "as_pointer", "as_string",
   "as_c_string"}
Getter(name, v) ==
  CASE name = "as_double" -> as_double(v)
    [] name = "as_float" -> as_float(v)
    [] name = "as_int" -> as_int(v)
    [] name = "as_uint" -> as_uint(v)
    [] name = "as_pointer" -> as_pointer(v)
    [] name = "as_string" -> as_string(v)
    [] name = "as_c_string" -> as_c_string(v)

\* ------------------------------------------------------------- state
VARIABLES
  vals,      \* the DukValue instances, by address
  stack,     \* the value stack of the context
  refs,      \* the elements of the ref array in the heap stash
  stashed,   \* the heap stash has the "dukglue_dukvalue_refs" property
  counts,    \* the heap cells of the reference counters
  ndebug,    \* the build defines NDEBUG: assert() expands to nothing
  aborted,   \* an assert() has failed
  prog,      \* the host program: how many DukValues it declares, the script
             \* values it pushes, whether its operations are logged
  last       \* the operation executed last (when logged)

vars == <<vals, stack, refs, stashed, counts, ndebug, aborted, prog, last>>

Ids == DOMAIN vals
Cells == DOMAIN counts
\* accept masks the callers pass: ~0x0 (the default) and DUK_TYPE_MASK_OBJECT
MaskAll == 0..31
MaskObject == {DUK_TYPE_OBJECT}
Masks == {MaskAll, MaskObject}
Idxs == (0 - MaxStack)..(MaxStack - 1)

W == World(vals, Engine(stack, refs, stashed), counts)
Commit(w) ==
  /\ vals' = w.vals
  /\ stack' = w.eng.stack
  /\ refs' = w.eng.refs
  /\ stashed' = w.eng.stashed
  /\ counts' = w.counts

\* the log entry an operation leaves: its name and, for a capture, the
\* stack index it was given and the slot stash_ref returned (0: none)
Entry(name, arg, ret) == [op |-> name, arg |-> arg, ret |-> ret]
NoOp == Entry("none", 0, 0)
Log(name, arg, ret) == IF prog.logged THEN Entry(name, arg, ret) ELSE NoOp
Op(name) == Log(name, 0, 0)
\* the slot held by the DukValue a capture returned
SlotOf(v) == IF v.mType = DUK_TYPE_OBJECT THEN v.mPOD.n ELSE 0

\* assert(false) is reached: the process aborts
AssertFails(name) ==
  /\ aborted' = TRUE
  /\ last' = Op(name)
  /\ UNCHANGED <<vals, stack, refs, stashed, counts, ndebug, prog>>

Min(S) == CHOOSE x \in S : \A y \in S : x <= y
DeadIds == {i \in Ids : ~vals[i].live}
\* a new DukValue is placed at the first unused address, a new counter in
\* the first unused cell
IsNew(i) == DeadIds # {} /\ i = Min(DeadIds)
NewCell == IF FreeCells(W) = {} THEN NULL ELSE Min(FreeCells(W))

Program(n, values, logged) == [nvals |-> n, host |-> values, logged |-> logged]

\* a fresh heap and an empty stack, no DukValue constructed yet
Start(p, nd) ==
  /\ prog = p
  /\ vals = [i \in 1..p.nvals |-> Dead]
  /\ stack = <<>>
  /\ refs = <<>>
  /\ stashed = FALSE
  /\ counts = [c \in 1..p.nvals |-> Unallocated]
  /\ ndebug = nd
  /\ aborted = FALSE
  /\ last = NoOp

\* the logged programs, built with assert() active
Init == \E values \in HostValueSets : Start(Program(NumVals, values, TRUE), FALSE)
\* programs copying one script object among several DukValues, not logged
InitChain == Start(Program(ChainVals, {VObj(1)}, FALSE), FALSE)

\* the host pushes a script value
HostPush(v) ==
  /\ ~aborted
  /\ Len(stack) < MaxStack
  /\ stack' = Append(stack, v)
  /\ last' = Op("host_push")
  /\ UNCHANGED <<vals, refs, stashed, counts, ndebug, aborted, prog>>

\* the host pops the top of the stack
HostPop ==
  /\ ~aborted
  /\ Len(stack) > 0
  /\ stack' = SubSeq(stack, 1, Len(stack) - 1)
  /\ last' = Op("host_pop")
  /\ UNCHANGED <<vals, refs, stashed, counts, ndebug, aborted, prog>>

\* DukValue v;
DefaultConstruct(i) ==
  /\ ~aborted
  /\ IsNew(i)
  /\ vals' = [vals EXCEPT ![i] = DefaultValue]
  /\ last' = Op("DukValue")
  /\ UNCHANGED <<stack, refs, stashed, counts, ndebug, aborted, prog>>

\* the world once the DukValue a capture returned is move-constructed at i
Captured(w, i, r) == [w EXCEPT !.eng = r.e, !.vals[i] = r.val]

\* DukValue v = DukValue::copy_from_stack(ctx, idx, mask);
CopyFromStack(i, idx, mask) ==
  /\ ~aborted
  /\ IsNew(i)
  /\ duk_is_valid_index(W.eng, idx)
  /\ IF ~duk_check_type_mask(W.eng, idx, mask) /\ ~ndebug
       THEN AssertFails("copy_from_stack assert")
       ELSE /\ Commit(Captured(W, i, copy_from_stack(W.eng, idx)))
            /\ last' = Log("copy_from_stack", idx, SlotOf(vals'[i]))
            /\ UNCHANGED <<ndebug, aborted, prog>>

\* DukValue v = DukValue::take_from_stack(ctx, idx, mask);
TakeFromStack(i, idx, mask) ==
  /\ ~aborted
  /\ IsNew(i)
  /\ duk_is_valid_index(W.eng, idx)
  /\ IF ~duk_check_type_mask(W.eng, idx, mask) /\ ~ndebug
       THEN AssertFails("take_from_stack assert")
       ELSE /\ Commit(Captured(W, i, take_from_stack(W.eng, idx)))
            /\ last' = Log("take_from_stack", idx, SlotOf(vals'[i]))
            /\ UNCHANGED <<ndebug, aborted, prog>>

\* v.push();
Push(i) ==
  /\ ~aborted
  /\ vals[i].live
  /\ vals[i].mContext = Ctx
  /\ Len(stack) < MaxStack
  /\ Commit([W EXCEPT !.eng = push(@, vals[i])])
  /\ last' = Op("push")
  /\ UNCHANGED <<ndebug, aborted, prog>>

\* DukValue v(w);  (DukValue() followed by *this = copy)
CopyConstruct(i, j) ==
  /\ ~aborted
  /\ IsNew(i)
  /\ vals[j].live
  /\ Commit(CopyAssignOp([W EXCEPT !.vals[i] = DefaultValue], i, j, NewCell))
  /\ last' = Op("copy_construct")
  /\ UNCHANGED <<ndebug, aborted, prog>>

\* v = w;  (v and w may be the same instance)
CopyAssign(i, j) ==
  /\ ~aborted
  /\ vals[i].live
  /\ vals[j].live
  /\ Commit(CopyAssignOp(W, i, j, NewCell))
  /\ last' = Op("operator=")
  /\ UNCHANGED <<ndebug, aborted, prog>>

\* DukValue v(std::move(w));
MoveConstruct(i, j) ==
  /\ ~aborted
  /\ IsNew(i)
  /\ vals[j].live
  /\ Commit(MoveConstructOp(W, i, j))
  /\ last' = Op("move_construct")
  /\ UNCHANGED <<ndebug, aborted, prog>>

\* ~DukValue()
Destroy(i) ==
  /\ ~aborted
  /\ vals[i].live
  /\ Commit([release_ref_count(W, i) EXCEPT !.vals[i] = Dead])
  /\ last' = Op("~DukValue")
  /\ UNCHANGED <<ndebug, aborted, prog>>

\* the types operator== has a case for
KnownTypes ==
  { DUK_TYPE_UNDEFINED, DUK_TYPE_NULL, DUK_TYPE_BOOLEAN, DUK_TYPE_NUMBER,
    DUK_TYPE_STRING, DUK_TYPE_OBJECT, DUK_TYPE_POINTER }
\* operator== runs into the default case of its switch
EqualsReachesDefault(a, b) ==
  a.mType = b.mType /\ a.mContext = b.mContext /\ a.mType \notin KnownTypes

\* v == w
Equals(i, j) ==
  /\ ~aborted
  /\ vals[i].live
  /\ vals[j].live
  /\ IF EqualsReachesDefault(vals[i], vals[j]) /\ ~ndebug
       THEN AssertFails("operator== assert")
       ELSE /\ Commit([W EXCEPT !.eng = equals(@, vals[i], vals[j]).e])
            /\ last' = Op("operator==")
            /\ UNCHANGED <<ndebug, aborted, prog>>

Next ==
  \/ \E v \in prog.host : HostPush(v)
  \/ HostPop
  \/ \E i \in Ids : DefaultConstruct(i)
  \/ \E i \in Ids, idx \in Idxs, mask \in Masks : CopyFromStack(i, idx, mask)
  \/ \E i \in Ids, idx \in Idxs, mask \in Masks : TakeFromStack(i, idx, mask)
  \/ \E i \in Ids : Push(i)
  \/ \E i \in Ids, j \in Ids : CopyConstruct(i, j)
  \/ \E i \in Ids, j \in Ids : CopyAssign(i, j)
  \/ \E i \in Ids, j \in Ids : MoveConstruct(i, j)
  \/ \E i \in Ids : Destroy(i)
  \/ \E i \in Ids, j \in Ids : Equals(i, j)

Spec == Init /\ [][Next]_vars
SpecChain == InitChain /\ [][Next]_vars

\* ------------------------------------------- the remaining operations
\* a second engine, of which the model keeps only the handle
Ctx2 == 2
\* the script values captured from the second engine
ForeignValues == {VNum(1), VBool(1)}

\* a host program that also calls the operations named in ops
ProgramCalling(n, values, ops) ==
  [nvals |-> n, host |-> values, logged |-> TRUE, calls |-> ops]

\* v.as_double(), v.as_string(), ...: the getter called name; the log
\* entry tells that it returned
Get(i, name) ==
  /\ ~aborted
  /\ "getters" \in prog.calls
  /\ vals[i].live
  /\ IF ~Getter(name, vals[i]).ok /\ ~ndebug
       THEN AssertFails("getter assert")
       ELSE /\ last' = Log(name, 0, 1)
            /\ UNCHANGED <<vals, stack, refs, stashed, counts, ndebug, aborted, prog>>

\* DukValue v = DukValue::copy_from_stack(ctx2, -1); with the value x, not
\* an object, on top of the stack of the second engine
CopyFromForeignStack(i, x) ==
  /\ ~aborted
  /\ "ctx2" \in prog.calls
  /\ IsNew(i)
  /\ vals' = [vals EXCEPT ![i] =
               [copy_from_stack(Engine(<<x>>, <<>>, FALSE), -1).val
                  EXCEPT !.mContext = Ctx2]]
  /\ last' = Log("copy_from_stack(ctx2)", -1, 0)
  /\ UNCHANGED <<stack, refs, stashed, counts, ndebug, aborted, prog>>

\* v = std::move(w);  DukValue declares no operator=(DukValue&&), so the
\* call binds to operator=(const DukValue&)
MoveAssign(i, j) ==
  /\ ~aborted
  /\ "move_assign" \in prog.calls
  /\ vals[i].live
  /\ vals[j].live
  /\ Commit(CopyAssignOp(W, i, j, NewCell))
  /\ last' = Log("operator=(std::move)", i, j)
  /\ UNCHANGED <<ndebug, aborted, prog>>

\* the host programs that call the getters, built with and without NDEBUG
GetterPrograms ==
  { ProgramCalling(NumVals, {VNum(7), VStr(<<97, 0, 98>>)}, {"getters"}),
    ProgramCalling(NumVals, {VNull, VPtr(5)}, {"getters"}) }
\* the host programs that use two engines or assign with std::move
HostPrograms ==
  { ProgramCalling(NumVals, {VNum(1), VBool(1), VObj(1)}, {"ctx2"}),
    ProgramCalling(NumVals, ObjectValues, {"move_assign"}) }

InitAll ==
  \/ \E p \in GetterPrograms, nd \in {FALSE, TRUE} : Start(p, nd)
  \/ \E p \in HostPrograms : Start(p, FALSE)

NextAll ==
  \/ Next
  \/ \E i \in Ids, name \in Getters : Get(i, name)
  \/ \E i \in Ids, x \in ForeignValues : CopyFromForeignStack(i, x)
  \/ \E i \in Ids, j \in Ids : MoveAssign(i, j)

SpecAll == InitAll /\ [][NextAll]_vars

\* ------------------------------------------------- reading the state
\* the slots of the ref array that can hold a reference
Slots == 1..(Len(refs) - 1)
\* ref_array[0], the head of the free list
FreeHead == IF Len(refs) > 0 /\ refs[1].type = DUK_TYPE_NUMBER THEN refs[1].n ELSE 0
\* the link stored in slot k
Link(k) == IF ArrayGet(refs, k).type = DUK_TYPE_NUMBER THEN ArrayGet(refs, k).n ELSE 0
\* the slots met following the links from slot k, at most fuel of them
RECURSIVE Chain(_, _)
Chain(k, fuel) ==
  IF k = 0 \/ fuel = 0 \/ k \notin Slots THEN {} ELSE {k} \cup Chain(Link(k), fuel - 1)
FreeSlots == Chain(FreeHead, Len(refs))

IsObject(i) == vals[i].live /\ vals[i].mType = DUK_TYPE_OBJECT
\* the live Object-kind DukValues holding slot k
Holders(k) == {i \in Ids : IsObject(i) /\ vals[i].mPOD.n = k}
\* the live DukValues pointing at counter c
Sharers(c) == {i \in Ids : vals[i].live /\ vals[i].mRefCount = c}

\* ---------------------------------------------------------------- C1
\* C1: a slot of the ref array is on the free list exactly when no live
\* Object-kind DukValue holds its index, and while a holder remains the slot
\* still stores the script object.
C1_SlotFreeIffNoHolder ==
  \A k \in Slots :
    /\ (k \in FreeSlots) <=> (Holders(k) = {})
    /\ Holders(k) # {} => ArrayGet(refs, k).type = DUK_TYPE_OBJECT

\* A captured, B = copy(A), C = copy(B), A and B destroyed: C, the third
\* DukValue declared, alone holds the slot, which is still pinned
C1_Witness ==
  /\ ~vals[1].live /\ ~vals[2].live
  /\ IsObject(3) /\ vals[3].mRefCount # NULL
  /\ counts[vals[3].mRefCount] = 1
  /\ ArrayGet(refs, vals[3].mPOD.n) = VObj(1)
  /\ FreeSlots = {}

\* ---------------------------------------------------------------- C2
\* C2: the counter an Object-kind DukValue points at holds the number of
\* live DukValues that hold the same slot and point at the same counter.
C2_CounterCountsSharers ==
  \A i \in Ids :
    (IsObject(i) /\ vals[i].mRefCount # NULL) =>
      counts[vals[i].mRefCount] =
        Cardinality({j \in Holders(vals[i].mPOD.n) :
                       vals[j].mRefCount = vals[i].mRefCount})

\* three DukValues share one slot and one counter, which holds 3
C2_Witness ==
  /\ \A i \in {1, 2, 3} : IsObject(i) /\ vals[i].mPOD.n = vals[1].mPOD.n
  /\ vals[1].mRefCount # NULL
  /\ counts[vals[1].mRefCount] = 3

\* ---------------------------------------------------------------- C3
\* C3 as stated: a counter that is present holds at least 2.
C3_CounterAtLeastTwo ==
  \A i \in Ids :
    (vals[i].live /\ vals[i].mRefCount # NULL) => counts[vals[i].mRefCount] >= 2

\* C3 amended: a counter is present only on Object-kind DukValues, it holds
\* at least 1, and it holds 1 exactly when one DukValue is left pointing at
\* it: the counter stays with the last sharer.
C3_CounterAtLeastOne ==
  \A i \in Ids :
    (vals[i].live /\ vals[i].mRefCount # NULL) =>
      /\ vals[i].mType = DUK_TYPE_OBJECT
      /\ counts[vals[i].mRefCount] >= 1
      /\ (counts[vals[i].mRefCount] = 1) <=> (Sharers(vals[i].mRefCount) = {i})

\* the sole owner left of a slot that was shared keeps the counter, at 1
C3_Witness ==
  \E i \in Ids :
    /\ IsObject(i) /\ vals[i].mRefCount # NULL
    /\ counts[vals[i].mRefCount] = 1
    /\ Holders(vals[i].mPOD.n) = {i}

\* ---------------------------------------------------------------- C4
\* the step is a capture that stored a script object (it called stash_ref)
ObjectCaptured ==
  /\ last'.op \in {"copy_from_stack", "take_from_stack"}
  /\ last'.ret # 0

\* C4: when exactly one slot K is free, the next capture of an object gets
\* slot K and the ref array keeps its length.
C4_FreedSlotReused ==
  [][\A K \in Slots :
       (FreeSlots = {K} /\ ObjectCaptured) =>
         (last'.ret = K /\ Len(refs') = Len(refs))]_vars

\* slot 1 was handed out again while slot 2 is held: the array has not grown
C4_Witness ==
  /\ last.op \in {"copy_from_stack", "take_from_stack"}
  /\ last.ret = 1
  /\ Len(refs) = 3
  /\ Holders(1) # {} /\ Holders(2) # {}

\* ---------------------------------------------------------------- C5
\* least element of a non-empty set of slots
Lowest(S) == CHOOSE k \in S : \A m \in S : k <= m

\* C5 as stated: with free slots, a capture gets the lowest-indexed one.
C5_LowestFreeSlot ==
  [][(FreeSlots # {} /\ ObjectCaptured) => last'.ret = Lowest(FreeSlots)]_vars

\* C5 amended: with free slots, a capture gets the slot at the head of the
\* free list, and the slot that one linked to becomes the head.
C5_HeadOfFreeList ==
  [][(FreeSlots # {} /\ ObjectCaptured) =>
       (last'.ret = FreeHead /\ FreeHead' = Link(FreeHead))]_vars

\* slot 2 was handed out while the lower slot 1 is still free
C5_Witness ==
  /\ last.op \in {"copy_from_stack", "take_from_stack"}
  /\ last.ret = 2
  /\ FreeSlots = {1}

\* ---------------------------------------------------------------- C6
\* what v.push() leaves on top of the stack of engine e
PushedIn(e, v) == StackAt(push(e, v), -1)
\* what v.push() of DukValue i would leave on top of the stack, now and
\* after the step
Pushed(i) == PushedIn(W.eng, vals[i])
PushedAfter(i) == PushedIn(Engine(stack', refs', stashed'), vals'[i])

\* the step destroys DukValue i, the sole owner of its slot
SoleOwnerReleased(i) ==
  /\ IsObject(i) /\ vals[i].mRefCount = NULL
  /\ Destroy(i)

\* C6: a capture of an object gets a slot no live DukValue holds and no
\* counter, so two captures of one object hold different slots; when a sole
\* owner is destroyed, its slot alone joins the free list and every
\* other Object-kind DukValue is unchanged and pushes what it pushed before.
C6_IndependentCaptures ==
  [][/\ ObjectCaptured =>
          \A i \in Ids :
            IsNew(i) => /\ vals'[i].mRefCount = NULL
                        /\ vals'[i].mPOD.n = last'.ret
                        /\ Holders(last'.ret) = {}
     /\ \A i \in Ids :
          SoleOwnerReleased(i) =>
            /\ FreeSlots' = FreeSlots \cup {vals[i].mPOD.n}
            /\ \A j \in Ids \ {i} :
                 IsObject(j) => (vals'[j] = vals[j] /\ PushedAfter(j) = Pushed(j))]_vars

\* script object 1 captured twice: two slots, no counter
C6_Witness ==
  /\ last.op \in {"copy_from_stack", "take_from_stack"}
  /\ IsObject(1) /\ IsObject(2)
  /\ vals[1].mRefCount = NULL /\ vals[2].mRefCount = NULL
  /\ vals[1].mPOD.n # vals[2].mPOD.n
  /\ Pushed(1) = VObj(1) /\ Pushed(2) = VObj(1)

\* ---------------------------------------------------------------- C7
\* C7: move construction of i from j copies context, type, payload and
\* counter pointer, leaves j undefined without counter, and changes neither
\* the stack, the ref array nor any counter; destroying a DukValue that is
\* not Object-kind (a moved-from one) changes none of them either.
C7_MoveTransfers ==
  [][/\ \A i \in Ids, j \in Ids :
          MoveConstruct(i, j) =>
            /\ vals'[i].live
            /\ vals'[i].mContext = vals[j].mContext
            /\ vals'[i].mType = vals[j].mType
            /\ vals'[i].mPOD = vals[j].mPOD
            /\ vals'[i].mRefCount = vals[j].mRefCount
            /\ vals[j].mType = DUK_TYPE_STRING => vals'[i].mString = vals[j].mString
            /\ vals'[j].live
            /\ vals'[j].mType = DUK_TYPE_UNDEFINED
            /\ vals'[j].mRefCount = NULL
            /\ <<stack, refs, stashed, counts>>' = <<stack, refs, stashed, counts>>
     /\ \A i \in Ids :
          (Destroy(i) /\ vals[i].mType # DUK_TYPE_OBJECT) =>
            <<stack, refs, stashed, counts>>' = <<stack, refs, stashed, counts>>]_vars

\* an Object-kind DukValue was moved: the source is undefined, the
\* destination holds the slot and the counter
C7_Witness ==
  /\ last.op = "move_construct"
  /\ \E i \in Ids, j \in Ids :
       /\ IsObject(i) /\ vals[i].mRefCount # NULL
       /\ vals[j].live /\ vals[j].mType = DUK_TYPE_UNDEFINED
       /\ vals[j].mPOD = vals[i].mPOD /\ vals[j].mRefCount = NULL

\* ---------------------------------------------------------------- C8
\* C8: push() adds exactly one value to the stack and changes neither a
\* DukValue, the ref array nor a counter.
C8_PushAddsOne ==
  [][\A i \in Ids :
       Push(i) => /\ Len(stack') = Len(stack) + 1
                  /\ <<vals, refs, stashed, counts>>' = <<vals, refs, stashed, counts>>]_vars

\* ---------------------------------------------------------------- C9
\* the stack without the element at index idx
Without(st, idx) ==
  [k \in 1..(Len(st) - 1) |->
     IF k <= (IF idx < 0 THEN Len(st) + idx ELSE idx) THEN st[k] ELSE st[k + 1]]

\* C9: copy_from_stack leaves the stack as it was, take_from_stack removes
\* the element at the index it was given and nothing else, operator== leaves
\* the stack as it was.
C9_StackBalance ==
  [][/\ last'.op = "copy_from_stack" => stack' = stack
     /\ last'.op = "take_from_stack" => stack' = Without(stack, last'.arg)
     /\ last'.op = "operator==" => stack' = stack]_vars

\* a script object was taken from the relative index -2 of a stack of two
C9_Witness ==
  /\ last = Entry("take_from_stack", -2, last.ret)
  /\ last.ret # 0
  /\ Len(stack) = 1

\* --------------------------------------------------------------- C10
\* the fields push() reads are the same before and after the step
SameValue(i) ==
  /\ vals[i].live /\ vals'[i].live
  /\ vals[i].mContext = Ctx
  /\ vals[i].mType \in KnownTypes
  /\ vals'[i].mType = vals[i].mType
  /\ vals'[i].mPOD = vals[i].mPOD
  /\ vals'[i].mString = vals[i].mString

\* C10: a DukValue of one of the seven kinds of enum Type, captured from a
\* stack index (absolute or relative), pushes the value that was at that
\* index, and whatever else happens on the engine it pushes the same value
\* as long as it is not destroyed or assigned to.
C10_RoundTrip ==
  [][/\ last'.op \in {"copy_from_stack", "take_from_stack"} =>
          \A i \in Ids :
            (IsNew(i) /\ vals'[i].mType \in KnownTypes) =>
              PushedAfter(i) = stack[(IF last'.arg < 0 THEN Len(stack) + last'.arg
                                                   ELSE last'.arg) + 1]
     /\ \A i \in Ids : SameValue(i) => PushedAfter(i) = Pushed(i)]_vars

\* script object 2 is pushed back from the DukValue holding slot 2, after
\* slot 1 was handed out and freed
C10_Witness ==
  /\ last.op = "push"
  /\ Len(stack) > 0 /\ stack[Len(stack)] = VObj(2)
  /\ FreeSlots = {1}
  /\ \E i \in Ids : IsObject(i) /\ vals[i].mPOD.n = 2 /\ Pushed(i) = VObj(2)

\* --------------------------------------------------------------- C11
\* what operator== returns for the DukValues i and j
EqualsRet(i, j) == equals(W.eng, vals[i], vals[j]).ret
\* the script value stored in the slot DukValue i holds
Stored(i) == ArrayGet(refs, vals[i].mPOD.n)

\* C11: operator== returns true only for operands of one engine handle and
\* one kind; for such operands it returns true for Undefined and Null, it
\* returns whether the payloads are equal for Boolean, Number, Pointer and
\* String, and whether the slots store the same script object for Object;
\* it returns the same with the operands exchanged.
C11_EqualsByHandleKindPayload ==
  \A i \in Ids, j \in Ids :
    (vals[i].live /\ vals[j].live) =>
      /\ EqualsRet(i, j) =>
           (vals[i].mContext = vals[j].mContext /\ vals[i].mType = vals[j].mType)
      /\ (vals[i].mContext = vals[j].mContext /\ vals[i].mType = vals[j].mType) =>
           CASE vals[i].mType \in {DUK_TYPE_UNDEFINED, DUK_TYPE_NULL} -> EqualsRet(i, j)
             [] vals[i].mType \in {DUK_TYPE_BOOLEAN, DUK_TYPE_NUMBER, DUK_TYPE_POINTER} ->
                  EqualsRet(i, j) <=> (vals[i].mPOD = vals[j].mPOD)
             [] vals[i].mType = DUK_TYPE_STRING ->
                  EqualsRet(i, j) <=> (vals[i].mString = vals[j].mString)
             [] vals[i].mType = DUK_TYPE_OBJECT ->
                  EqualsRet(i, j) <=> (Stored(i) = Stored(j))
             [] OTHER -> TRUE
      /\ EqualsRet(i, j) = EqualsRet(j, i)

\* the Number 1 captured from each of the two engines was compared: the
\* payloads are equal, the handles differ, operator== returns false
C11_Witness ==
  /\ last.op = "operator=="
  /\ \E i \in Ids, j \in Ids :
       /\ vals[i].live /\ vals[j].live
       /\ vals[i].mType = DUK_TYPE_NUMBER /\ vals[j].mType = DUK_TYPE_NUMBER
       /\ vals[i].mPOD = vals[j].mPOD
       /\ vals[i].mContext = Ctx /\ vals[j].mContext = Ctx2
       /\ ~EqualsRet(i, j)

\* --------------------------------------------------------------- C12
\* the kind a getter is for
GetterKind(name) ==
  CASE name \in {"as_double", "as_float", "as_int", "as_uint"} -> DUK_TYPE_NUMBER
    [] name = "as_pointer" -> DUK_TYPE_POINTER
    [] name \in {"as_string", "as_c_string"} -> DUK_TYPE_STRING
\* DukValue i is not of the kind of the getter, the Null accepted by
\* as_pointer apart
WrongKind(i, name) ==
  /\ vals[i].mType # GetterKind(name)
  /\ ~(name = "as_pointer" /\ vals[i].mType = DUK_TYPE_NULL)

\* C12: a getter called on a DukValue of another kind ends the process and
\* returns nothing; as_pointer called on a Null returns the null pointer.
C12_GettersRejectWrongKind ==
  [][\A i \in Ids, name \in Getters :
       /\ (Get(i, name) /\ WrongKind(i, name)) => aborted'
       /\ (Get(i, name) /\ name = "as_pointer" /\ vals[i].mType = DUK_TYPE_NULL) =>
            (~aborted' /\ as_pointer(vals[i]).data = NULL)]_vars

\* --------------------------------------------------------------- C13
\* the step is a capture into DukValue i of the value at idx, whose type is
\* not in mask
MaskMismatch(i, idx, mask) ==
  /\ CopyFromStack(i, idx, mask) \/ TakeFromStack(i, idx, mask)
  /\ ~duk_check_type_mask(W.eng, idx, mask)

\* C13: a capture of a value whose type is not in the accept mask ends the
\* process, and no DukValue, slot, counter or stack element has changed.
C13_MaskMismatchFails ==
  [][\A i \in Ids, idx \in Idxs, mask \in Masks :
       MaskMismatch(i, idx, mask) =>
         /\ aborted'
         /\ <<vals, stack, refs, stashed, counts>>' = <<vals, stack, refs, stashed, counts>>]_vars

\* --------------------------------------------------------------- C14
\* C14: the kind of every DukValue is one of the seven of enum Type.
C14_KindIsKnown ==
  \A i \in Ids : vals[i].live => vals[i].mType \in KnownTypes

\* --------------------------------------------------------------- C15
\* the slots met in order following the links from slot k, at most fuel
RECURSIVE Walk(_, _)
Walk(k, fuel) ==
  IF k = 0 \/ fuel = 0 THEN <<>> ELSE <<k>> \o Walk(Link(k), fuel - 1)
\* where following at most fuel links from slot k ends
RECURSIVE WalkEnd(_, _)
WalkEnd(k, fuel) == IF k = 0 \/ fuel = 0 THEN k ELSE WalkEnd(Link(k), fuel - 1)
FreeList == Walk(FreeHead, Len(refs))

\* C15: once the ref array exists, slot 0 stores a number, the head of the
\* free list; no DukValue holds slot 0; the links from slot 0 lead through
\* slots that store links, meet no slot twice and end at 0; every slot from
\* 1 to length-1 is either held by a live Object-kind DukValue or met on
\* the free list, never both and never neither.
C15_TableWellFormed ==
  /\ stashed => (Len(refs) >= 1 /\ refs[1].type = DUK_TYPE_NUMBER)
  /\ \A i \in Ids : IsObject(i) => vals[i].mPOD.n \in Slots
  /\ WalkEnd(FreeHead, Len(refs)) = 0
  /\ \A p \in DOMAIN FreeList :
       /\ FreeList[p] \in Slots
       /\ ArrayGet(refs, FreeList[p]).type = DUK_TYPE_NUMBER
       /\ \A q \in DOMAIN FreeList : FreeList[p] = FreeList[q] => p = q
  /\ \A k \in Slots :
       (Holders(k) = {}) <=> (\E p \in DOMAIN FreeList : FreeList[p] = k)

\* two slots were handed out and freed, the lower one last: the free list
\* leads from slot 0 to slot 1, to slot 2, to 0
C15_Witness ==
  /\ Len(refs) = 3
  /\ FreeList = <<1, 2>>
  /\ last.op = "~DukValue"

\* --------------------------------------------------------------- C16
\* the length of the ref array at the call of stash_ref: a fresh engine
\* gets, in the call, the array of length 1 that push_ref_array creates
LengthAtCall == IF stashed THEN Len(refs) ELSE 1

\* C16: the ref array never gets shorter; a capture of an object makes it
\* one longer and gets the previous length as its slot exactly when no slot
\* is free (slot 1 on a fresh engine), and keeps the length otherwise; no
\* other operation changes the length; a DukValue that stays Object-kind
\* and is not assigned to keeps its slot index.
C16_LengthMonotonic ==
  [][/\ Len(refs') >= Len(refs)
     /\ ObjectCaptured =>
          /\ (FreeSlots = {}) <=> (Len(refs') = LengthAtCall + 1)
          /\ FreeSlots = {} => last'.ret = LengthAtCall
          /\ FreeSlots # {} => Len(refs') = Len(refs)
          /\ ~stashed => last'.ret = 1
     /\ ~ObjectCaptured => Len(refs') = Len(refs)
     /\ \A i \in Ids :
          (IsObject(i) /\ vals'[i].live /\ vals'[i].mType = DUK_TYPE_OBJECT
             /\ last'.op # "operator=") =>
            vals'[i].mPOD = vals[i].mPOD]_vars

\* the second object captured was appended: it got slot 2, the length the
\* array had, and the array has length 3 with both slots held
C16_Witness ==
  /\ last.op \in {"copy_from_stack", "take_from_stack"}
  /\ last.ret = 2
  /\ Len(refs) = 3
  /\ Holders(1) # {} /\ Holders(2) # {}

\* --------------------------------------------------------------- C17
\* DukValue i has, after the step, the engine handle, kind and payload that
\* DukValue j has before it
HasValueOf(i, j) ==
  /\ vals'[i].mContext = vals[j].mContext
  /\ vals'[i].mType = vals[j].mType
  /\ vals'[i].mPOD = vals[j].mPOD
  /\ vals[j].mType = DUK_TYPE_STRING => vals'[i].mString = vals[j].mString

\* C17 for two instances: x = y leaves x with the engine handle, kind and
\* payload y had, and y with its kind and payload.
C17_CopyAssignOther ==
  [][\A i \in Ids, j \in Ids :
       (CopyAssign(i, j) /\ i # j) => (HasValueOf(i, j) /\ HasValueOf(j, j))]_vars

\* C17: x = y leaves x with the engine handle, kind and payload y had, and
\* y with its kind and payload, x and y being two instances or one; an
\* Object-kind x assigned to itself still holds its slot, which is not
\* free, and pushes the object it pushed before.
C17_CopyAssign ==
  [][\A i \in Ids, j \in Ids :
       CopyAssign(i, j) =>
         /\ HasValueOf(i, j)
         /\ HasValueOf(j, j)
         /\ (i = j /\ IsObject(i)) =>
              /\ vals'[i].mPOD.n \notin FreeSlots'
              /\ PushedAfter(i) = Pushed(i)]_vars

\* --------------------------------------------------------------- C18
\* C18: b = std::move(a) with a Object-kind gives b the engine handle, the
\* slot and the counter pointer of a, allocates no counter and leaves the
\* counter of a at its value, and leaves a Undefined without counter.
C18_MoveAssignTransfers ==
  [][\A i \in Ids, j \in Ids :
       (MoveAssign(i, j) /\ i # j /\ IsObject(j)) =>
         /\ HasValueOf(i, j)
         /\ vals'[i].mRefCount = vals[j].mRefCount
         /\ \A c \in Cells : counts[c] = Unallocated => counts'[c] = Unallocated
         /\ (vals[j].mRefCount # NULL /\ vals[i].mRefCount # vals[j].mRefCount) =>
              counts'[vals[j].mRefCount] = counts[vals[j].mRefCount]
         /\ vals'[j].mType = DUK_TYPE_UNDEFINED
         /\ vals'[j].mRefCount = NULL]_vars

====
